---- MODULE Spec2Model ----
(***************************************************************************)
(* VetAssist conversation orchestration engine: the conversation state     *)
(* machine, the appointment scheduler, the emergency pipeline and the      *)
(* follow-up engine of docs/WHATSAPP_AUTOMATION_ARCHITECTURE.md, together  *)
(* with the dashboard handlers that create, edit and cancel appointments.  *)
(* Times are minutes.                                                      *)
(***************************************************************************)
EXTENDS Integers, Sequences, FiniteSets, TLC

(***************************************************************************)
(* Bounds of the model                                                     *)
(***************************************************************************)
\* business hours of the modelled clinic day: 09:00 to 10:30
OpenTime == 540
CloseTime == 630
\* the clock at the start of a run
StartNow == 550
\* the clock never runs past StartNow + Horizon
Horizon == 3000
\* at most this many appointment rows
MaxAppts == 3
\* at most this many inbound messages waiting per conversation
MaxInbox == 1
\* at most this many EmergencyEvent rows
MaxEvents == 2
\* at most this many outbound messages recorded per conversation
MaxOutbound == 7
\* at most this many transport redeliveries of one inbound event
MaxRedeliver == 2
\* a conversation loaded at the start of a run entered its state at most this
\* many minutes before
EnteredAgo == 2
\* message texts have at most this many characters
MaxText == 3
MaxFollowUps == 4

(***************************************************************************)
(* Program constants                                                       *)
(***************************************************************************)
BufferMin == 5
SlotStep == 30
DefaultDuration == 30
MaxSlots == 10
EmergencyDuration == 60

NoDeadline == -1
NoSlot == -1

(***************************************************************************)
(* The conversation state machine's tables                                 *)
(***************************************************************************)
States ==
    {"IDLE", "GREETING", "INTENT_DETECTION", "ASK_REASON", "OFFER_SLOTS",
     "AWAIT_SELECTION", "CONFIRM_BOOKING", "CONFIRM_EMERGENCY", "ESCALATE",
     "COLLECT_STATUS", "COMPLETED", "REMINDER", "CLOSED"}

STATE_TRANSITIONS ==
    [s \in States |->
        CASE s = "IDLE" -> {"GREETING"}
          [] s = "GREETING" -> {"INTENT_DETECTION", "REMINDER"}
          [] s = "INTENT_DETECTION" ->
                {"ASK_REASON", "CONFIRM_EMERGENCY", "COLLECT_STATUS", "GREETING", "REMINDER"}
          [] s = "ASK_REASON" -> {"OFFER_SLOTS", "CONFIRM_EMERGENCY", "REMINDER"}
          [] s = "OFFER_SLOTS" -> {"AWAIT_SELECTION", "ASK_REASON", "REMINDER"}
          [] s = "AWAIT_SELECTION" -> {"CONFIRM_BOOKING", "OFFER_SLOTS", "REMINDER"}
          [] s = "CONFIRM_BOOKING" -> {"COMPLETED", "OFFER_SLOTS", "REMINDER"}
          [] s = "CONFIRM_EMERGENCY" -> {"ESCALATE", "ASK_REASON", "CLOSED"}
          [] s = "ESCALATE" -> {"COMPLETED"}
          [] s = "COLLECT_STATUS" -> {"COMPLETED", "ESCALATE", "REMINDER"}
          [] s = "COMPLETED" -> {"CLOSED"}
          [] s = "REMINDER" -> {"INTENT_DETECTION", "CLOSED"}
          [] s = "CLOSED" -> {"GREETING"}]

\* the Timeout column of the state table, in minutes (NoDeadline: "-")
StateTimeout ==
    [s \in States |->
        CASE s = "GREETING" -> 5
          [] s = "INTENT_DETECTION" -> 10
          [] s = "ASK_REASON" -> 15
          [] s = "OFFER_SLOTS" -> 15
          [] s = "AWAIT_SELECTION" -> 15
          [] s = "CONFIRM_BOOKING" -> 10
          [] s = "CONFIRM_EMERGENCY" -> 5
          [] s = "COLLECT_STATUS" -> 1440
          [] s = "REMINDER" -> 1440
          [] OTHER -> NoDeadline]

\* the Fallback column of the state table ("NONE": "-"; CLOSE is state CLOSED)
StateFallback ==
    [s \in States |->
        CASE s = "GREETING" -> "INTENT_DETECTION"
          [] s = "INTENT_DETECTION" -> "REMINDER"
          [] s = "ASK_REASON" -> "REMINDER"
          [] s = "OFFER_SLOTS" -> "REMINDER"
          [] s = "AWAIT_SELECTION" -> "REMINDER"
          [] s = "CONFIRM_BOOKING" -> "REMINDER"
          [] s = "CONFIRM_EMERGENCY" -> "CLOSED"
          [] s = "COLLECT_STATUS" -> "CLOSED"
          [] s = "COMPLETED" -> "CLOSED"
          [] s = "REMINDER" -> "CLOSED"
          [] OTHER -> "NONE"]

(***************************************************************************)
(* Entities                                                                *)
(***************************************************************************)
ConvSeq == <<"c1", "c2", "c3">>
Convs == {ConvSeq[i] : i \in 1..Len(ConvSeq)}
ConvIndex(c) == CHOOSE i \in 1..Len(ConvSeq) : ConvSeq[i] = c
Contacts == {"p1", "p2"}
\* the contact address of each conversation: c3 is a later conversation of p1
contactOf == [c \in Convs |-> IF c = "c2" THEN "p2" ELSE "p1"]
Workers == {"w1", "w2"}
Sweepers == {"s1", "s2"}
\* the clinic's ordered escalation contact list
EscalationContacts == <<"vet1", "vet2">>
NoConv == "none"

VARIABLES
    now,        \* the clock (datetime.utcnow())
    state,      \* conversations.state
    memory,     \* conversations.state_data: offered slots and the selected slot
    deadline,   \* conversations.timeout_at
    fuLink,     \* conversations.follow_up_id (0: an inbound conversation)
    emLink,     \* conversations.emergency_id (0: none)
    inbox,      \* the processing queue of each conversation
    unit,       \* the unit of work each worker is running
    appts,      \* the appointments table
    clients,    \* the contacts that have a clients row
    falseCount, \* clients.false_emergency_count
    events,     \* the emergency_events table
    alerts,     \* the emergency_alerts table
    followups,  \* follow_ups.status and follow_ups.scheduled_at
    fuSweep,    \* the follow-up sweep runs in progress
    toSweep,    \* the timeout sweep runs in progress
    outbound,   \* the outbound messages recorded per conversation
    sends,      \* the channel messages sent per follow-up
    nextId,     \* the next fresh row id (uuid4())
    outcome     \* what the last operation did

convVars == <<state, memory, deadline, fuLink, emLink>>
queueVars == <<inbox, unit>>
schedVars == <<appts, nextId>>
emergVars == <<clients, falseCount, events, alerts>>
fuVars == <<followups, fuSweep, sends>>
vars == <<now, state, memory, deadline, fuLink, emLink, inbox, unit, appts,
          clients, falseCount, events, alerts, followups, fuSweep, toSweep,
          outbound, sends, nextId, outcome>>

(***************************************************************************)
(* Scheduling Engine                                                       *)
(***************************************************************************)
TimeSlot(t, d) == [start |-> t, end |-> t + d]

\* the candidate slots of the day: every SlotStep from opening while the
\* slot still ends by closing time
GridStarts(d) ==
    {t \in OpenTime..CloseTime :
        /\ (t - OpenTime) % SlotStep = 0
        /\ t + d <= CloseTime}

\* the overlap test of the conflict filter, buffer applied to the slot
Conflicts(apt, slot) ==
    /\ apt.status # "cancelled"
    /\ apt.start < slot.end + BufferMin
    /\ apt.end > slot.start - BufferMin

has_conflict(existing, slot) == \E apt \in existing : Conflicts(apt, slot)

is_slot_available(existing, slot) == ~has_conflict(existing, slot)

\* clinic.business_hours.get(day_of_week): no entry (set FALSE) for a weekday
\* without hours, else whether the clinic opens and from when to when
NoHours == [set |-> FALSE, is_open |-> FALSE, open_time |-> 0, close_time |-> 0]

OpenHours(open, close) ==
    [set |-> TRUE, is_open |-> TRUE, open_time |-> open, close_time |-> close]

\* the hours of the modelled clinic day
ClinicHours == OpenHours(OpenTime, CloseTime)

\* the while loop: a slot every SlotStep from current while it ends by slot_end
RECURSIVE all_slots(_, _, _)
all_slots(current, slot_end, duration) ==
    IF current + duration <= slot_end
    THEN <<TimeSlot(current, duration)>> \o all_slots(current + SlotStep, slot_end, duration)
    ELSE <<>>

\* available[:MaxSlots]
FirstSlots(available) ==
    SubSeq(available, 1, IF Len(available) < MaxSlots THEN Len(available) ELSE MaxSlots)

\* a slot list that is not capped
get_available_slots_on_uncapped(hours, existing, duration) ==
    IF ~hours.set \/ ~hours.is_open THEN <<>>
    ELSE LET free(slot) == ~has_conflict(existing, slot)
         IN  SelectSeq(all_slots(hours.open_time, hours.close_time, duration), free)

\* get_available_slots for a date with the given business hours and existing
\* appointments: nothing on a closed day, else the free slots of the grid,
\* earliest first, at most MaxSlots of them
get_available_slots_on(hours, existing, duration) ==
    IF ~hours.set \/ ~hours.is_open THEN <<>>
    ELSE LET free(slot) == ~has_conflict(existing, slot)
         IN  FirstSlots(SelectSeq(all_slots(hours.open_time, hours.close_time, duration),
                                  free))

\* an offer that lists the whole grid, booked or not
get_available_slots_ignoring_bookings(existing, d) ==
    LET available == get_available_slots_on(ClinicHours, {}, d)
    IN  {available[i].start : i \in 1..Len(available)}

\* the starts of the slots offered on the modelled clinic day
get_available_slots(existing, d) ==
    LET available == get_available_slots_on(ClinicHours, existing, d)
    IN  {available[i].start : i \in 1..Len(available)}

\* the k-th offered slot in ascending order, NoSlot when there is none
NthSlot(offered, k) ==
    LET hit == {t \in offered : Cardinality({u \in offered : u < t}) = k - 1}
    IN  IF hit = {} THEN NoSlot ELSE CHOOSE t \in hit : TRUE

(***************************************************************************)
(* Conversation State Machine                                              *)
(***************************************************************************)
\* only an edge of the adjacency table is permitted
CanTransition(s, d) == d \in STATE_TRANSITIONS[s]

\* a transition that reports the violation but saves the requested state
transition_fail_open(s, d) == [ok |-> CanTransition(s, d), state |-> d]

\* transition(conversation, event) for an event that asks for state d: the
\* new state, or InvalidTransition with the conversation left as it is
transition(s, d) ==
    IF CanTransition(s, d)
    THEN [ok |-> TRUE, state |-> d]
    ELSE [ok |-> FALSE, state |-> s]

\* the deadline a state entry at time t sets: entry time plus the state's
\* timeout; ESCALATE, COMPLETED and CLOSED clear it
DeadlineOnEntry(d, t) ==
    IF StateTimeout[d] = NoDeadline THEN NoDeadline ELSE t + StateTimeout[d]

\* the hops <<from, to>> of walking path (a sequence of states) from s
HopsOf(s, path) ==
    [i \in 1..Len(path) |-> <<IF i = 1 THEN s ELSE path[i - 1], path[i]>>]

\* the state a list of hops ends in
EndOf(s, hops) == IF hops = <<>> THEN s ELSE hops[Len(hops)][2]

NoHops == <<>>

(***************************************************************************)
(* Inbound messages, abstracted to what the router and the flows read      *)
(*   text   a message the classifier reads as scheduling (a request, a     *)
(*          consultation reason), with no emergency term                   *)
(*   emerg  a message with a high-confidence emergency term                *)
(*   oos    a message the classifier reads as out of scope                 *)
(*   status a message the classifier reads as a follow-up response         *)
(*   pick1, pick2   an ordinal slot selection                              *)
(*   yes, no        a confirmation                                         *)
(*   emerg_sched, emerg_status, emerg_oos   a message with an emergency    *)
(*          term that the classifier reads as scheduling, as a follow-up   *)
(*          response, as out of scope                                      *)
(***************************************************************************)
Msgs ==
    {"text", "emerg", "oos", "status", "pick1", "pick2", "yes", "no",
     "emerg_sched", "emerg_status", "emerg_oos"}

\* the characters of message texts: letters in both cases, "!" and a letter
\* of no keyword
Chars == {"n", "r", "N", "R", "v", "u", "g", "x", "!"}

\* str.lower() for one character
lower(ch) ==
    CASE ch = "N" -> "n"
      [] ch = "R" -> "r"
      [] OTHER -> ch

\* message.lower()
message_lower(message) == [i \in 1..Len(message) |-> lower(message[i])]

\* kw in text: kw is a substring of text
Contains(text, kw) ==
    \E i \in 0..(Len(text) - Len(kw)) : SubSeq(text, i + 1, i + Len(kw)) = kw

\* the keyword lists, a term being a string of characters: "nr" and "v" stand
\* for the high-confidence terms ('no respira', 'veneno', ...), "u" and "g"
\* for the medium ones ('urgente', 'grave', ...)
EMERGENCY_KEYWORDS ==
    [high |-> {<<"n", "r">>, <<"v">>}, medium |-> {<<"u">>, <<"g">>}]

NoDetection ==
    [is_potential_emergency |-> FALSE, confidence |-> "none",
     matched_keywords |-> {}, requires_confirmation |-> FALSE]

\* a detection that compares the message as typed with the keyword lists
detect_emergency_as_typed(message) ==
    LET high_matches == {kw \in EMERGENCY_KEYWORDS.high : Contains(message, kw)}
        medium_matches == {kw \in EMERGENCY_KEYWORDS.medium : Contains(message, kw)}
    IN  IF high_matches # {}
        THEN [is_potential_emergency |-> TRUE, confidence |-> "high",
              matched_keywords |-> high_matches, requires_confirmation |-> TRUE]
        ELSE IF Cardinality(medium_matches) >= 2
                   \/ (medium_matches # {} /\ Contains(message, <<"!">>))
        THEN [is_potential_emergency |-> TRUE, confidence |-> "medium",
              matched_keywords |-> medium_matches, requires_confirmation |-> TRUE]
        ELSE NoDetection

\* detect_emergency: high-confidence terms first, then two medium terms or
\* one with an exclamation mark
detect_emergency(message) ==
    LET high_matches ==
            {kw \in EMERGENCY_KEYWORDS.high : Contains(message_lower(message), kw)}
        medium_matches ==
            {kw \in EMERGENCY_KEYWORDS.medium : Contains(message_lower(message), kw)}
    IN  IF high_matches # {}
        THEN [is_potential_emergency |-> TRUE, confidence |-> "high",
              matched_keywords |-> high_matches, requires_confirmation |-> TRUE]
        ELSE IF Cardinality(medium_matches) >= 2
                   \/ (medium_matches # {} /\ Contains(message, <<"!">>))
        THEN [is_potential_emergency |-> TRUE, confidence |-> "medium",
              matched_keywords |-> medium_matches, requires_confirmation |-> TRUE]
        ELSE NoDetection

\* a text that stands for each message
TextOf(m) ==
    CASE m = "emerg" -> <<"v">>
      [] m = "emerg_sched" -> <<"x", "N", "R">>
      [] m = "emerg_status" -> <<"n", "r", "x">>
      [] m = "emerg_oos" -> <<"u", "!">>
      [] OTHER -> <<"x">>

\* the intent the external classifier returns for each message
Intents == {"scheduling", "emergency", "follow_up_response", "out_of_scope"}

IntentOf(m) ==
    CASE m \in {"text", "emerg_sched"} -> "scheduling"
      [] m = "emerg" -> "emergency"
      [] m \in {"status", "emerg_status"} -> "follow_up_response"
      [] OTHER -> "out_of_scope"

\* the deterministic keyword pre-filter of the router
PreFilter(m) == detect_emergency(TextOf(m)).is_potential_emergency

\* a router that gives up on a message it does not recognise
Route_closing_unrecognised(matched, intent) ==
    IF matched THEN <<"CONFIRM_EMERGENCY">>
    ELSE CASE intent = "scheduling" -> <<"ASK_REASON">>
           [] intent = "follow_up_response" -> <<"COLLECT_STATUS">>
           [] intent = "emergency" -> <<"CONFIRM_EMERGENCY">>
           [] OTHER -> <<"CLOSED">>

\* a router that asks the classifier first and looks at the keywords only
\* when the classifier found nothing
Route_classifier_first(matched, intent) ==
    CASE intent = "scheduling" -> <<"ASK_REASON">>
      [] intent = "follow_up_response" -> <<"COLLECT_STATUS">>
      [] intent = "emergency" -> <<"CONFIRM_EMERGENCY">>
      [] OTHER -> IF matched THEN <<"CONFIRM_EMERGENCY">> ELSE <<>>

\* the dispatch of the router: an emergency keyword match wins over the
\* classifier's intent; out_of_scope stays in INTENT_DETECTION
Route(matched, intent) ==
    IF matched THEN <<"CONFIRM_EMERGENCY">>
    ELSE CASE intent = "scheduling" -> <<"ASK_REASON">>
           [] intent = "follow_up_response" -> <<"COLLECT_STATUS">>
           [] intent = "emergency" -> <<"CONFIRM_EMERGENCY">>
           [] OTHER -> <<>>

\* Intent Router: the emergency pre-filter wins, then the classifier
Classify(m) == Route(PreFilter(m), IntentOf(m))

\* "1", "la primera", ... select by position when that many slots were offered
parse_slot_selection(m, offered) ==
    IF m = "pick1" THEN NthSlot(offered, 1)
    ELSE IF m = "pick2" THEN NthSlot(offered, 2)
    ELSE NoSlot

\* the states whose inbound messages the flows below handle
FlowStates ==
    {"IDLE", "GREETING", "INTENT_DETECTION", "REMINDER", "ASK_REASON",
     "OFFER_SLOTS", "AWAIT_SELECTION", "CONFIRM_BOOKING", "CONFIRM_EMERGENCY",
     "COLLECT_STATUS"}

\* the states one inbound message m walks a conversation through from state
\* s, given the slots offered to it
Flow(s, m, offered) ==
    CASE s = "IDLE" -> <<"GREETING", "INTENT_DETECTION">> \o Classify(m)
      [] s = "GREETING" -> <<"INTENT_DETECTION">> \o Classify(m)
      [] s = "INTENT_DETECTION" -> Classify(m)
      [] s = "REMINDER" -> <<"INTENT_DETECTION">> \o Classify(m)
      [] s = "ASK_REASON" ->
            IF PreFilter(m) THEN <<"CONFIRM_EMERGENCY">> ELSE <<"OFFER_SLOTS">>
      [] s = "OFFER_SLOTS" ->
            IF parse_slot_selection(m, offered) # NoSlot
            THEN <<"AWAIT_SELECTION", "CONFIRM_BOOKING">>
            ELSE <<"AWAIT_SELECTION">>
      [] s = "AWAIT_SELECTION" ->
            IF parse_slot_selection(m, offered) # NoSlot
            THEN <<"CONFIRM_BOOKING">>
            ELSE <<>>
      [] s = "CONFIRM_BOOKING" -> IF m = "no" THEN <<"OFFER_SLOTS">> ELSE <<>>
      [] s = "COLLECT_STATUS" -> <<"COMPLETED", "CLOSED">>
      [] OTHER -> <<>>

\* the working memory after the walk: entering OFFER_SLOTS takes a fresh
\* offer, entering CONFIRM_BOOKING records the selection
MemoryAfter(mem, m, path, existing) ==
    IF path = <<>> THEN mem
    ELSE LET d == path[Len(path)]
         IN  IF d = "OFFER_SLOTS"
             THEN [offered |-> get_available_slots(existing, DefaultDuration),
                   selected |-> NoSlot]
             ELSE IF d = "CONFIRM_BOOKING"
             THEN [mem EXCEPT !.selected = parse_slot_selection(m, mem.offered)]
             ELSE mem

EmptyMemory == [offered |-> {}, selected |-> NoSlot]

IdleUnit ==
    [pc |-> "idle", c |-> NoConv, msg |-> "none", att |-> 0, read |-> "IDLE",
     i |-> 0, ev |-> 0]

\* no mutual exclusion: any worker may take any waiting message
LockFree_unlocked(c) == TRUE

\* per-conversation mutual exclusion: no unit of work is running for c
LockFree(c) == \A w \in Workers : unit[w].c # c

\* what an operation did: the conversation it ran for, its result, the state
\* changes it applied, and its input (a message text, a requested state)
OutcomeArg(op, c, res, hops, arg) ==
    [op |-> op, c |-> c, res |-> res, hops |-> hops, arg |-> arg]

Outcome(op, c, res, hops) == OutcomeArg(op, c, res, hops, "none")

Init ==
    /\ now = StartNow
    /\ state = [c \in Convs |-> "IDLE"]
    /\ memory = [c \in Convs |-> EmptyMemory]
    /\ deadline = [c \in Convs |-> NoDeadline]
    /\ fuLink = [c \in Convs |-> 0]
    /\ emLink = [c \in Convs |-> 0]
    /\ inbox = [c \in Convs |-> <<>>]
    /\ unit = [w \in Workers |-> IdleUnit]
    /\ appts = {}
    /\ clients = {}
    /\ falseCount = [p \in Contacts |-> 0]
    /\ events = {}
    /\ alerts = {}
    /\ followups = {}
    /\ fuSweep = [s \in Sweepers |-> {}]
    /\ toSweep = [s \in Sweepers |-> {}]
    /\ outbound = [c \in Convs |-> 0]
    /\ sends = {}
    /\ nextId = 1
    /\ outcome = Outcome("init", NoConv, "ok", NoHops)

(***************************************************************************)
(* Ingress: an inbound message is queued for its contact's conversation    *)
(***************************************************************************)
\* a message of a contact goes to the contact's oldest conversation that is
\* not CLOSED; while that one is still IDLE the message creates it
Routable(c) ==
    /\ state[c] # "CLOSED"
    /\ \A d \in Convs :
          (contactOf[d] = contactOf[c] /\ ConvIndex(d) < ConvIndex(c))
              => state[d] = "CLOSED"

Deliver(c, m) ==
    /\ Routable(c)
    /\ Len(inbox[c]) < MaxInbox
    /\ inbox' = [inbox EXCEPT ![c] = Append(@, [text |-> m, att |-> 0])]
    /\ outcome' = Outcome("deliver", c, "queued", NoHops)
    /\ UNCHANGED <<now, convVars, unit, schedVars, emergVars, fuVars, toSweep, outbound>>

\* the messages that answer what a conversation in state s was last asked
Answers(s) ==
    CASE s \in {"IDLE", "GREETING", "INTENT_DETECTION", "REMINDER"} ->
            {"text", "emerg", "status", "oos", "emerg_sched", "emerg_status", "emerg_oos"}
      [] s = "ASK_REASON" -> {"text", "emerg", "emerg_sched"}
      [] s \in {"OFFER_SLOTS", "AWAIT_SELECTION"} -> {"pick1", "pick2", "oos"}
      [] s \in {"CONFIRM_BOOKING", "CONFIRM_EMERGENCY"} -> {"yes", "no"}
      [] s = "COLLECT_STATUS" -> {"status"}
      [] OTHER -> {"text"}

\* the workers are interchangeable: the first idle one takes the next unit
WorkerSeq == <<"w1", "w2">>
FirstIdle(w) ==
    \E i \in 1..Len(WorkerSeq) :
        /\ WorkerSeq[i] = w
        /\ \A j \in 1..(i - 1) : unit[WorkerSeq[j]].pc # "idle"

\* a worker takes the oldest waiting message of a conversation no other unit
\* of work is running for, and loads the conversation
Begin(w, c) ==
    /\ unit[w].pc = "idle"
    /\ FirstIdle(w)
    /\ inbox[c] # <<>>
    /\ LockFree(c)
    /\ state[c] # "CLOSED"
    /\ unit' = [unit EXCEPT ![w] =
            [IdleUnit EXCEPT !.pc = "run", !.c = c, !.msg = Head(inbox[c]).text,
                             !.att = Head(inbox[c]).att, !.read = state[c]]]
    /\ inbox' = [inbox EXCEPT ![c] = Tail(@)]
    /\ outcome' = Outcome("begin", c, "ok", NoHops)
    /\ UNCHANGED <<now, convVars, schedVars, emergVars, fuVars, toSweep, outbound>>

IsBookingConfirm(u) == u.read = "CONFIRM_BOOKING" /\ u.msg = "yes"
IsEmergencyAnswer(u) == u.read = "CONFIRM_EMERGENCY" /\ u.msg \in {"yes", "no"}

\* the walk of a path hop by hop through transition: every hop must be
\* permitted
WalkOk(s, path) ==
    \A i \in 1..Len(path) :
        transition(HopsOf(s, path)[i][1], HopsOf(s, path)[i][2]).ok

\* one step of the active flow: the transition is computed from the state the
\* unit loaded, the new state and deadline are saved and the reply is sent
Step(w) ==
    LET u == unit[w]
        c == u.c
        path == Flow(u.read, u.msg, memory[c].offered)
        hops == HopsOf(u.read, path)
    IN  /\ u.pc = "run"
        /\ u.read \in FlowStates
        /\ ~IsBookingConfirm(u)
        /\ ~IsEmergencyAnswer(u)
        /\ outbound[c] < MaxOutbound
        /\ IF WalkOk(u.read, path)
           THEN /\ state' = [state EXCEPT ![c] = EndOf(u.read, hops)]
                /\ deadline' = [deadline EXCEPT ![c] =
                        IF path = <<>> THEN @
                        ELSE DeadlineOnEntry(EndOf(u.read, hops), now)]
                /\ memory' = [memory EXCEPT ![c] = MemoryAfter(@, u.msg, path, appts)]
                /\ outbound' = [outbound EXCEPT ![c] = @ + 1]
                /\ outcome' = OutcomeArg("step", c, "ok", hops, u.msg)
           ELSE /\ outcome' = OutcomeArg("step", c, "InvalidTransition", NoHops, u.msg)
                /\ UNCHANGED <<state, deadline, memory, outbound>>
        /\ unit' = [unit EXCEPT ![w] = IdleUnit]
        /\ UNCHANGED <<now, fuLink, emLink, inbox, schedVars, emergVars, fuVars, toSweep>>

\* a message in a state no flow handles (ESCALATE, COMPLETED): the message is
\* dropped with a "let's start over" reply and the conversation is nudged to
\* INTENT_DETECTION; the nudge is a transition like any other, permitted
\* only along the adjacency table
InvalidEvent(w) ==
    LET u == unit[w]
        c == u.c
        r == transition(u.read, "INTENT_DETECTION")
    IN  /\ u.pc = "run"
        /\ u.read \notin FlowStates
        /\ outbound[c] < MaxOutbound
        /\ state' = [state EXCEPT ![c] = r.state]
        /\ deadline' = [deadline EXCEPT ![c] =
                IF r.ok THEN DeadlineOnEntry("INTENT_DETECTION", now) ELSE @]
        /\ outbound' = [outbound EXCEPT ![c] = @ + 1]
        /\ unit' = [unit EXCEPT ![w] = IdleUnit]
        /\ outcome' = Outcome("invalid_event", c, "start_over",
                              IF r.ok THEN <<<<u.read, "INTENT_DETECTION">>>> ELSE NoHops)
        /\ UNCHANGED <<now, memory, fuLink, emLink, inbox, schedVars, emergVars, fuVars, toSweep>>

\* the unit of work fails (a send or classification call out of retries, a
\* crash): the conversation is not mutated, and the transport delivers the
\* inbound event again while it has redeliveries left
Fail(w) ==
    LET u == unit[w]
        c == u.c
    IN  /\ u.pc # "idle"
        /\ unit' = [unit EXCEPT ![w] = IdleUnit]
        /\ inbox' = [inbox EXCEPT ![c] =
                IF u.att < MaxRedeliver
                THEN <<[text |-> u.msg, att |-> u.att + 1]>> \o @
                ELSE @]
        /\ outcome' = Outcome("fail", c,
                              IF u.att < MaxRedeliver THEN "redelivered" ELSE "dropped",
                              NoHops)
        /\ UNCHANGED <<now, convVars, schedVars, emergVars, fuVars, toSweep, outbound>>

(***************************************************************************)
(* bookSlot: create_appointment_from_conversation, step by step            *)
(***************************************************************************)
\* the "race condition check": the slot is validated against the
\* appointments as they are now; a taken slot raises SlotNoLongerAvailable,
\* which the flow recovers from by offering slots again
BookCheck(w) ==
    LET u == unit[w]
        c == u.c
        slot == TimeSlot(memory[c].selected, DefaultDuration)
    IN  /\ u.pc = "run"
        /\ IsBookingConfirm(u)
        /\ IF is_slot_available(appts, slot)
           THEN /\ unit' = [unit EXCEPT ![w].pc = "commit"]
                /\ outcome' = Outcome("book_check", c, "available", NoHops)
                /\ UNCHANGED <<state, deadline, memory, outbound>>
           ELSE /\ outbound[c] < MaxOutbound
                /\ state' = [state EXCEPT ![c] = "OFFER_SLOTS"]
                /\ deadline' = [deadline EXCEPT ![c] = DeadlineOnEntry("OFFER_SLOTS", now)]
                /\ memory' = [memory EXCEPT ![c] =
                        [offered |-> get_available_slots(appts, DefaultDuration),
                         selected |-> NoSlot]]
                /\ outbound' = [outbound EXCEPT ![c] = @ + 1]
                /\ unit' = [unit EXCEPT ![w] = IdleUnit]
                /\ outcome' = Outcome("book_check", c, "SlotNoLongerAvailable",
                                      <<<<u.read, "OFFER_SLOTS">>>>)
        /\ UNCHANGED <<now, fuLink, emLink, inbox, schedVars, emergVars, fuVars, toSweep>>

NewAppointment(id, c, slot) ==
    [id |-> id, start |-> slot.start, end |-> slot.end, status |-> "scheduled",
     source |-> "whatsapp", priority |-> "normal", conv |-> c,
     client |-> contactOf[c], emergency |-> 0]

\* get-or-create the client, then db.add(appointment); db.commit()
BookCommit(w) ==
    LET u == unit[w]
        c == u.c
        slot == TimeSlot(memory[c].selected, DefaultDuration)
    IN  /\ u.pc = "commit"
        /\ Cardinality(appts) < MaxAppts
        /\ appts' = appts \cup {NewAppointment(nextId, c, slot)}
        /\ nextId' = nextId + 1
        /\ clients' = clients \cup {contactOf[c]}
        /\ unit' = [unit EXCEPT ![w].pc = "reply"]
        /\ outcome' = Outcome("book_commit", c, "booked", NoHops)
        /\ UNCHANGED <<now, convVars, inbox, falseCount, events, alerts, fuVars, toSweep, outbound>>

\* the booking is confirmed to the contact: CONFIRM_BOOKING -> COMPLETED ->
\* CLOSED is saved and the confirmation is sent
Finish(w) ==
    LET u == unit[w]
        c == u.c
        hops == HopsOf(u.read, <<"COMPLETED", "CLOSED">>)
    IN  /\ u.pc = "reply"
        /\ outbound[c] < MaxOutbound
        /\ WalkOk(u.read, <<"COMPLETED", "CLOSED">>)
        /\ state' = [state EXCEPT ![c] = "CLOSED"]
        /\ deadline' = [deadline EXCEPT ![c] = DeadlineOnEntry("CLOSED", now)]
        /\ outbound' = [outbound EXCEPT ![c] = @ + 1]
        /\ unit' = [unit EXCEPT ![w] = IdleUnit]
        /\ outcome' = Outcome("finish", c, "confirmed", hops)
        /\ UNCHANGED <<now, memory, fuLink, emLink, inbox, schedVars, emergVars, fuVars, toSweep>>

(***************************************************************************)
(* Emergency Pipeline                                                      *)
(***************************************************************************)
\* the message texts up to MaxText characters
Texts == UNION {[1..n -> Chars] : n \in 0..MaxText}

\* detect is called on the message text of a run
Detect(message) ==
    /\ outcome.op # "detect"
    /\ outcome' = OutcomeArg("detect", NoConv, detect_emergency(message), NoHops, message)
    /\ UNCHANGED <<now, convVars, queueVars, schedVars, emergVars, fuVars, toSweep, outbound>>

\* handle_emergency_confirmation: a known client with a false-emergency
\* count >= 1 is denied; an unconfirmed emergency counts as a false alarm
\* and redirects to scheduling; a confirmed one escalates
handle_emergency_confirmation_unless_confirmed(isClient, count, confirmed) ==
    IF isClient /\ count >= 1 /\ ~confirmed THEN "denied"
    ELSE IF ~confirmed THEN "redirect_to_scheduling"
    ELSE "escalate"

handle_emergency_confirmation(isClient, count, confirmed) ==
    IF isClient /\ count >= 1 THEN "denied"
    ELSE IF ~confirmed THEN "redirect_to_scheduling"
    ELSE "escalate"

ConfirmEmergency(w) ==
    LET u == unit[w]
        c == u.c
        p == contactOf[c]
        action == handle_emergency_confirmation(p \in clients, falseCount[p], u.msg = "yes")
    IN  /\ u.pc = "run"
        /\ IsEmergencyAnswer(u)
        /\ CASE action = "denied" ->
                  /\ outbound[c] < MaxOutbound
                  /\ outbound' = [outbound EXCEPT ![c] = @ + 1]
                  /\ unit' = [unit EXCEPT ![w] = IdleUnit]
                  /\ outcome' = OutcomeArg("confirm", c, "denied", NoHops, u.msg)
                  /\ UNCHANGED <<state, deadline, falseCount>>
             [] action = "redirect_to_scheduling" ->
                  /\ outbound[c] < MaxOutbound
                  /\ transition(u.read, "ASK_REASON").ok
                  /\ falseCount' = [falseCount EXCEPT ![p] =
                          IF p \in clients THEN @ + 1 ELSE @]
                  /\ state' = [state EXCEPT ![c] = "ASK_REASON"]
                  /\ deadline' = [deadline EXCEPT ![c] = DeadlineOnEntry("ASK_REASON", now)]
                  /\ outbound' = [outbound EXCEPT ![c] = @ + 1]
                  /\ unit' = [unit EXCEPT ![w] = IdleUnit]
                  /\ outcome' = OutcomeArg("confirm", c, "redirect_to_scheduling",
                                           <<<<u.read, "ASK_REASON">>>>, u.msg)
             [] OTHER ->
                  /\ unit' = [unit EXCEPT ![w].pc = "esc_create"]
                  /\ outcome' = OutcomeArg("confirm", c, "escalate", NoHops, u.msg)
                  /\ UNCHANGED <<state, deadline, falseCount, outbound>>
        /\ UNCHANGED <<now, memory, fuLink, emLink, inbox, schedVars, clients,
                       events, alerts, fuVars, toSweep>>

\* create_emergency_slot: a 60-minute appointment starting now, status and
\* priority emergency, added whatever else is scheduled
create_emergency_slot(id, emergencyId, t) ==
    [id |-> id, start |-> t, end |-> t + EmergencyDuration, status |-> "emergency",
     source |-> "whatsapp", priority |-> "emergency", conv |-> NoConv,
     client |-> "none", emergency |-> emergencyId]

\* an escalation that makes room for the emergency: the appointments its
\* window overlaps are cancelled
EscCreate_displacing(w) ==
    LET u == unit[w]
        c == u.c
        slot == create_emergency_slot(nextId + 1, nextId, now)
    IN  /\ u.pc = "esc_create"
        /\ Cardinality(events) < MaxEvents
        /\ Cardinality(appts) < MaxAppts
        /\ events' = events \cup
                {[id |-> nextId, conv |-> c, contact |-> contactOf[c], status |-> "active"]}
        /\ appts' = {IF Conflicts(a, slot) THEN [a EXCEPT !.status = "cancelled"] ELSE a :
                        a \in appts} \cup {slot}
        /\ nextId' = nextId + 2
        /\ unit' = [unit EXCEPT ![w].pc = "esc_alert", ![w].i = 1, ![w].ev = nextId]
        /\ outcome' = Outcome("escalate", c, "event_created", NoHops)
        /\ UNCHANGED <<now, convVars, inbox, clients, falseCount, alerts, fuVars,
                       toSweep, outbound>>

\* execute_emergency_escalation, steps 1 and 2: the EmergencyEvent and the
\* priority appointment are added and committed
EscCreate(w) ==
    LET u == unit[w]
        c == u.c
    IN  /\ u.pc = "esc_create"
        /\ Cardinality(events) < MaxEvents
        /\ Cardinality(appts) < MaxAppts
        /\ events' = events \cup
                {[id |-> nextId, conv |-> c, contact |-> contactOf[c], status |-> "active"]}
        /\ appts' = appts \cup {create_emergency_slot(nextId + 1, nextId, now)}
        /\ nextId' = nextId + 2
        /\ unit' = [unit EXCEPT ![w].pc = "esc_alert", ![w].i = 1, ![w].ev = nextId]
        /\ outcome' = Outcome("escalate", c, "event_created", NoHops)
        /\ UNCHANGED <<now, convVars, inbox, clients, falseCount, alerts, fuVars,
                       toSweep, outbound>>

\* step 3: the alert to the next escalation contact is sent and logged
EscAlert(w) ==
    LET u == unit[w]
    IN  /\ u.pc = "esc_alert"
        /\ u.i <= Len(EscalationContacts)
        /\ alerts' = alerts \cup
                {[id |-> nextId, emergency |-> u.ev, to |-> EscalationContacts[u.i]]}
        /\ nextId' = nextId + 1
        /\ unit' = [unit EXCEPT ![w].i = @ + 1]
        /\ outcome' = Outcome("escalate", u.c, "alert_sent", NoHops)
        /\ UNCHANGED <<now, convVars, inbox, appts, clients, falseCount, events,
                       fuVars, toSweep, outbound>>

\* step 4: conversation.state = 'ESCALATE', the emergency is linked, commit,
\* and the client is answered
EscFinish(w) ==
    LET u == unit[w]
        c == u.c
    IN  /\ u.pc = "esc_alert"
        /\ u.i > Len(EscalationContacts)
        /\ outbound[c] < MaxOutbound
        /\ state' = [state EXCEPT ![c] = "ESCALATE"]
        /\ deadline' = [deadline EXCEPT ![c] = DeadlineOnEntry("ESCALATE", now)]
        /\ emLink' = [emLink EXCEPT ![c] = u.ev]
        /\ outbound' = [outbound EXCEPT ![c] = @ + 1]
        /\ unit' = [unit EXCEPT ![w] = IdleUnit]
        /\ outcome' = Outcome("escalate", c, "escalated", <<<<state[c], "ESCALATE">>>>)
        /\ UNCHANGED <<now, memory, fuLink, inbox, schedVars, emergVars, fuVars, toSweep>>

\* step 3 when send_emergency_alert raises for the next escalation contact:
\* nothing in the loop catches it, so execute_emergency_escalation ends
\* there; the remaining contacts are not alerted and step 4 does not run
EscAlertFail(w) ==
    LET u == unit[w]
        c == u.c
    IN  /\ u.pc = "esc_alert"
        /\ u.i <= Len(EscalationContacts)
        /\ unit' = [unit EXCEPT ![w] = IdleUnit]
        /\ inbox' = [inbox EXCEPT ![c] =
                IF u.att < MaxRedeliver
                THEN <<[text |-> u.msg, att |-> u.att + 1]>> \o @
                ELSE @]
        /\ outcome' = OutcomeArg("escalate", c, "alert_failed", NoHops,
                                 EscalationContacts[u.i])
        /\ UNCHANGED <<now, convVars, schedVars, emergVars, fuVars, toSweep, outbound>>

\* step 4 when the answer to the client cannot be sent: the conversation is
\* already committed as ESCALATE when execute_emergency_escalation returns the
\* message for the client, so the failed send leaves it there; the unit of
\* work fails and the transport delivers the inbound event again
EscFinishReplyFail(w) ==
    LET u == unit[w]
        c == u.c
    IN  /\ u.pc = "esc_alert"
        /\ u.i > Len(EscalationContacts)
        /\ state' = [state EXCEPT ![c] = "ESCALATE"]
        /\ deadline' = [deadline EXCEPT ![c] = DeadlineOnEntry("ESCALATE", now)]
        /\ emLink' = [emLink EXCEPT ![c] = u.ev]
        /\ unit' = [unit EXCEPT ![w] = IdleUnit]
        /\ inbox' = [inbox EXCEPT ![c] =
                IF u.att < MaxRedeliver
                THEN <<[text |-> u.msg, att |-> u.att + 1]>> \o @
                ELSE @]
        /\ outcome' = OutcomeArg("fail", c, "reply_failed",
                                 <<<<state[c], "ESCALATE">>>>, u.msg)
        /\ UNCHANGED <<now, memory, fuLink, schedVars, emergVars, fuVars, toSweep, outbound>>

(***************************************************************************)
(* The dashboard's operator actions                                        *)
(***************************************************************************)
\* the store's book-if-free: a manual write goes through the same overlap
\* rule as a booking
BookIfFree(existing, slot) == is_slot_available(existing, slot)

\* NewAppointmentForm.handleSubmit: appointments.create with source manual
OperatorCreate(p, t) ==
    LET slot == TimeSlot(t, DefaultDuration)
    IN  /\ Cardinality(appts) < MaxAppts
        /\ IF BookIfFree(appts, slot)
           THEN /\ appts' = appts \cup
                        {[id |-> nextId, start |-> slot.start, end |-> slot.end,
                          status |-> "scheduled", source |-> "manual",
                          priority |-> "normal", conv |-> NoConv, client |-> p,
                          emergency |-> 0]}
                /\ nextId' = nextId + 1
                /\ clients' = clients \cup {p}
                /\ outcome' = Outcome("operator_create", NoConv, "created", NoHops)
           ELSE /\ outcome' = Outcome("operator_create", NoConv, "rejected", NoHops)
                /\ UNCHANGED <<appts, nextId, clients>>
        /\ UNCHANGED <<now, convVars, queueVars, falseCount, events, alerts, fuVars,
                       toSweep, outbound>>

\* EditAppointmentForm.handleSubmit with a changed date or time:
\* appointments.update({start_time})
OperatorReschedule(a, t) ==
    LET slot == TimeSlot(t, a.end - a.start)
    IN  /\ a \in appts
        /\ a.status # "cancelled"
        /\ t # a.start
        /\ IF BookIfFree(appts \ {a}, slot)
           THEN /\ appts' = (appts \ {a}) \cup
                        {[a EXCEPT !.start = slot.start, !.end = slot.end]}
                /\ outcome' = Outcome("operator_reschedule", NoConv, "moved", NoHops)
           ELSE /\ outcome' = Outcome("operator_reschedule", NoConv, "rejected", NoHops)
                /\ UNCHANGED appts
        /\ UNCHANGED <<now, convVars, queueVars, nextId, emergVars, fuVars, toSweep,
                       outbound>>

\* handleDelete / handleCancel: appointments.delete cancels the appointment
OperatorCancel(a) ==
    /\ a \in appts
    /\ a.status # "cancelled"
    /\ appts' = (appts \ {a}) \cup {[a EXCEPT !.status = "cancelled"]}
    /\ outcome' = Outcome("operator_cancel", NoConv, "cancelled", NoHops)
    /\ UNCHANGED <<now, convVars, queueVars, nextId, emergVars, fuVars, toSweep, outbound>>

\* the clients page's handleClientSubmit: clients.create
OperatorCreateClient(p) ==
    /\ p \notin clients
    /\ clients' = clients \cup {p}
    /\ outcome' = Outcome("operator_client", NoConv, "created", NoHops)
    /\ UNCHANGED <<now, convVars, queueVars, schedVars, falseCount, events, alerts,
                   fuVars, toSweep, outbound>>

\* the emergencies page's handleAcknowledge, offered for an active emergency
OperatorAcknowledge(e) ==
    /\ e \in events
    /\ e.status = "active"
    /\ events' = (events \ {e}) \cup {[e EXCEPT !.status = "acknowledged"]}
    /\ outcome' = OutcomeArg("operator_acknowledge", e.conv, "acknowledged", NoHops, e.id)
    /\ UNCHANGED <<now, convVars, queueVars, schedVars, clients, falseCount, alerts,
                   fuVars, toSweep, outbound>>

\* the emergencies page's handleResolve, offered for every active or
\* acknowledged emergency: emergencies.resolve with notes and was_false_alarm
OperatorResolve(e, wasFalseAlarm) ==
    /\ e \in events
    /\ e.status \in {"active", "acknowledged"}
    /\ events' = (events \ {e}) \cup
            {[e EXCEPT !.status = IF wasFalseAlarm THEN "false_alarm" ELSE "resolved"]}
    /\ outcome' = OutcomeArg("operator_resolve", e.conv,
                             IF wasFalseAlarm THEN "false_alarm" ELSE "resolved",
                             NoHops, e.id)
    /\ UNCHANGED <<now, convVars, queueVars, schedVars, clients, falseCount, alerts,
                   fuVars, toSweep, outbound>>

\* the hours page's toggleDay: an open day is closed (null), a closed day
\* gets default hours; here the hours a date can have
DayHours ==
    {NoHours,
     [ClinicHours EXCEPT !.is_open = FALSE],
     ClinicHours,
     OpenHours(OpenTime - 4 * SlotStep, CloseTime + 8 * SlotStep)}

Durations == {DefaultDuration, DefaultDuration + 15}

\* listAvailableSlots is called for a date with the given hours
ListSlots(hours, duration) ==
    /\ outcome' = OutcomeArg("list_slots", NoConv,
                             get_available_slots_on(hours, appts, duration), NoHops,
                             [hours |-> hours, duration |-> duration])
    /\ UNCHANGED <<now, convVars, queueVars, schedVars, emergVars, fuVars, toSweep, outbound>>

(***************************************************************************)
(* Follow-up Engine                                                        *)
(***************************************************************************)
HourMinutes == 60

\* FOLLOW_UP_PROTOCOLS[procedure_type]['schedule'], hours after the
\* procedure; an unknown type gets the consultation protocol
ProtocolSchedule(ptype) ==
    CASE ptype = "surgery" -> <<24, 48, 72, 168>>
      [] ptype = "vaccination" -> <<24>>
      [] OTHER -> <<48>>

\* a scheduler that counts the delays from the appointment's start
schedule_follow_ups_from_start(a, ptype, firstId) ==
    LET schedule == ProtocolSchedule(ptype)
    IN  {[id |-> firstId + i - 1, appt |-> a.id, client |-> a.client,
          at |-> a.start + schedule[i] * HourMinutes, status |-> "pending",
          seq |-> i, error |-> "none"] : i \in 1..Len(schedule)}

\* schedule_follow_ups: one pending FollowUp per protocol step
schedule_follow_ups(a, ptype, firstId) ==
    LET schedule == ProtocolSchedule(ptype)
    IN  {[id |-> firstId + i - 1, appt |-> a.id, client |-> a.client,
          at |-> a.end + schedule[i] * HourMinutes, status |-> "pending",
          seq |-> i, error |-> "none"] : i \in 1..Len(schedule)}

\* EditAppointmentForm.handleSubmit with the status changed to completed:
\* the appointment is completed and its follow-ups are scheduled
OperatorComplete(a, ptype) ==
    /\ a \in appts
    /\ a.status \notin {"cancelled", "completed"}
    /\ a.client # "none"
    /\ appts' = (appts \ {a}) \cup {[a EXCEPT !.status = "completed"]}
    /\ followups' = followups \cup schedule_follow_ups(a, ptype, nextId)
    /\ nextId' = nextId + Len(ProtocolSchedule(ptype))
    /\ outcome' = OutcomeArg("operator_complete", NoConv, "completed", NoHops, ptype)
    /\ UNCHANGED <<now, convVars, queueVars, emergVars, fuSweep, sends, toSweep, outbound>>

\* EditAppointmentForm.handleSubmit with the status select changed to one of
\* its other options: the status is written, whatever it was before
OperatorSetStatus(a, status) ==
    /\ a \in appts
    /\ status \in {"scheduled", "confirmed", "no_show"}
    /\ status # a.status
    /\ appts' = (appts \ {a}) \cup {[a EXCEPT !.status = status]}
    /\ outcome' = OutcomeArg("operator_status", NoConv, status, NoHops, a.id)
    /\ UNCHANGED <<now, convVars, queueVars, nextId, emergVars, fuVars, toSweep, outbound>>

\* process_pending_follow_ups, the query: the pending FollowUps that are due
DueFollowUps == {f \in followups : f.status = "pending" /\ f.at <= now}

FuSelect(s) ==
    /\ fuSweep[s] = {}
    /\ DueFollowUps # {}
    /\ fuSweep' = [fuSweep EXCEPT ![s] = {f.id : f \in DueFollowUps}]
    /\ outcome' = Outcome("dispatch_select", NoConv, "selected", NoHops)
    /\ UNCHANGED <<now, convVars, queueVars, schedVars, emergVars, followups, sends,
                   toSweep, outbound>>

\* a conversation id no conversation has used yet
Unused(c) == state[c] = "IDLE" /\ inbox[c] = <<>> /\ LockFree(c) /\ fuLink[c] = 0

\* process_pending_follow_ups, one turn of the loop over the rows the query
\* returned: send_follow_up adds the follow_up conversation in
\* COLLECT_STATUS and sends the message; the row is marked sent, or failed when
\* the send raised, and the session is committed
FuSend(s, fid, sendOk) ==
    LET f == CHOOSE x \in followups : x.id = fid
        free == {c \in Convs : contactOf[c] = f.client /\ Unused(c)}
        c == CHOOSE x \in free : \A y \in free : ConvIndex(x) <= ConvIndex(y)
    IN  /\ fid \in fuSweep[s]
        /\ free # {}
        /\ state' = [state EXCEPT ![c] = "COLLECT_STATUS"]
        /\ fuLink' = [fuLink EXCEPT ![c] = fid]
        /\ IF sendOk
           THEN /\ sends' = sends \cup {[id |-> nextId, fu |-> fid, conv |-> c]}
                /\ nextId' = nextId + 1
                /\ outbound' = [outbound EXCEPT ![c] = @ + 1]
                /\ followups' = (followups \ {f}) \cup {[f EXCEPT !.status = "sent"]}
                /\ outcome' = OutcomeArg("dispatch", c, "sent", NoHops, fid)
           ELSE /\ followups' = (followups \ {f})
                                \cup {[f EXCEPT !.status = "failed", !.error = "send_error"]}
                /\ outcome' = OutcomeArg("dispatch", c, "failed", NoHops, fid)
                /\ UNCHANGED <<sends, nextId, outbound>>
        /\ fuSweep' = [fuSweep EXCEPT ![s] = @ \ {fid}]
        /\ UNCHANGED <<now, memory, deadline, emLink, queueVars, appts, emergVars, toSweep>>

\* FOLLOW_UP_PROTOCOLS[procedure_type]['escalation_keywords'], copied into
\* each FollowUp by schedule_follow_ups; a term is a string of characters:
\* "v" stands for the surgery terms ('sangre', 'fiebre', ...), "nr" for the
\* vaccination ones ('no respira', ...), "u" for the consultation ones
\* ('peor', ...)
escalation_keywords(ptype) ==
    CASE ptype = "surgery" -> {<<"v">>}
      [] ptype = "vaccination" -> {<<"n", "r">>}
      [] OTHER -> {<<"u">>}

\* the sentiment word lists: 'peor' ("u") is also a consultation keyword, and
\* the positive 'mejor' ("r") is part of the negative 'no mejora' ("nr")
negative_indicators == {<<"u">>, <<"n", "r">>}
positive_indicators == {<<"r">>, <<"x">>}

\* an analysis that escalates every concern
analyze_follow_up_response_any_concern(ptype, response_message) ==
    LET text == message_lower(response_message)
        matched_keywords == {kw \in escalation_keywords(ptype) : Contains(text, kw)}
        negative_count == Cardinality({ind \in negative_indicators : Contains(text, ind)})
        positive_count == Cardinality({ind \in positive_indicators : Contains(text, ind)})
    IN  IF matched_keywords # {} \/ negative_count > positive_count
        THEN [status |-> "concern", requires_escalation |-> TRUE,
              matched_keywords |-> matched_keywords,
              recommendation |-> IF matched_keywords # {} THEN "alert_vet" ELSE "monitor"]
        ELSE [status |-> "normal", requires_escalation |-> FALSE,
              matched_keywords |-> {}, recommendation |-> "continue_protocol"]

\* analyze_follow_up_response for a FollowUp of the given procedure type
analyze_follow_up_response(ptype, response_message) ==
    LET text == message_lower(response_message)
        matched_keywords == {kw \in escalation_keywords(ptype) : Contains(text, kw)}
        negative_count == Cardinality({ind \in negative_indicators : Contains(text, ind)})
        positive_count == Cardinality({ind \in positive_indicators : Contains(text, ind)})
    IN  IF matched_keywords # {} \/ negative_count > positive_count
        THEN [status |-> "concern", requires_escalation |-> matched_keywords # {},
              matched_keywords |-> matched_keywords,
              recommendation |-> IF matched_keywords # {} THEN "alert_vet" ELSE "monitor"]
        ELSE [status |-> "normal", requires_escalation |-> FALSE,
              matched_keywords |-> {}, recommendation |-> "continue_protocol"]

\* analyzeResponse is called on the response text of a run
Analyze(ptype, response_message) ==
    /\ outcome' = OutcomeArg("analyze", NoConv,
                             analyze_follow_up_response(ptype, response_message), NoHops,
                             [ptype |-> ptype, message |-> response_message])
    /\ UNCHANGED <<now, convVars, queueVars, schedVars, emergVars, fuVars, toSweep, outbound>>

(***************************************************************************)
(* Timeout sweep                                                           *)
(***************************************************************************)
Expired(c) == deadline[c] # NoDeadline /\ deadline[c] <= now

\* a sweep run reads the conversations whose deadline has passed
ToSelect(s) ==
    /\ toSweep[s] = {}
    /\ \E c \in Convs : Expired(c)
    /\ toSweep' = [toSweep EXCEPT ![s] =
            {[c |-> c, st |-> state[c], dl |-> deadline[c]] : c \in {x \in Convs : Expired(x)}}]
    /\ outcome' = Outcome("timeout_select", NoConv, "selected", NoHops)
    /\ UNCHANGED <<now, convVars, queueVars, schedVars, emergVars, fuVars, outbound>>

\* the row-level claim: the conditional update succeeds only while the
\* conversation is still in the state, with the deadline, that the run read
Claimed(snap) == state[snap.c] = snap.st /\ deadline[snap.c] = snap.dl

\* the run handles one conversation it read: if it wins the claim, the
\* timeout event goes through transition to the state's fallback; REMINDER
\* sends the reminder, CLOSED is silent
ToApply(s, snap) ==
    LET c == snap.c
        d == StateFallback[snap.st]
        r == transition(state[c], d)
    IN  /\ snap \in toSweep[s]
        /\ LockFree(c)
        /\ toSweep' = [toSweep EXCEPT ![s] = @ \ {snap}]
        /\ IF ~Claimed(snap)
           THEN /\ outcome' = OutcomeArg("timeout", c, "lost_claim", NoHops, d)
                /\ UNCHANGED <<state, deadline, outbound>>
           ELSE IF ~r.ok
           THEN /\ outcome' = OutcomeArg("timeout", c, "InvalidTransition", NoHops, d)
                /\ UNCHANGED <<state, deadline, outbound>>
           ELSE /\ state' = [state EXCEPT ![c] = r.state]
                /\ deadline' = [deadline EXCEPT ![c] = DeadlineOnEntry(r.state, now)]
                /\ outbound' = [outbound EXCEPT ![c] =
                        IF r.state = "REMINDER" /\ @ < MaxOutbound THEN @ + 1 ELSE @]
                /\ outcome' = OutcomeArg("timeout", c, "fallback", <<<<snap.st, r.state>>>>, d)
        /\ UNCHANGED <<now, memory, fuLink, emLink, queueVars, schedVars, emergVars, fuVars>>

\* the clock moves on to the next instant something is due at
Instants ==
    {deadline[c] : c \in Convs} \cup {f.at : f \in followups}

Tick ==
    /\ \E t \in Instants :
          /\ t > now
          /\ t <= StartNow + Horizon
          /\ now' = t
    /\ outcome' = Outcome("tick", NoConv, "ok", NoHops)
    /\ UNCHANGED <<convVars, queueVars, schedVars, emergVars, fuVars, toSweep, outbound>>

\* transition called for conversation c with an event that asks for state d
TransitionTo(c, d) ==
    LET r == transition(state[c], d)
    IN  /\ state' = [state EXCEPT ![c] = r.state]
        /\ deadline' = [deadline EXCEPT ![c] =
                IF r.ok THEN DeadlineOnEntry(d, now) ELSE @]
        /\ outcome' = OutcomeArg("transition", c,
                                 IF r.ok THEN "ok" ELSE "InvalidTransition",
                                 IF r.ok THEN <<<<state[c], d>>>> ELSE NoHops, d)
        /\ UNCHANGED <<now, memory, fuLink, emLink, queueVars, schedVars, emergVars,
                       fuVars, toSweep, outbound>>

(***************************************************************************)
(* Specifications                                                          *)
(***************************************************************************)
\* the inbound handler's steps, for the workers
HandlerStep ==
    \/ \E w \in Workers, c \in Convs : Begin(w, c)
    \/ \E w \in Workers : Step(w)

BookingStep ==
    \/ \E w \in Workers : BookCheck(w)
    \/ \E w \in Workers : BookCommit(w)
    \/ \E w \in Workers : Finish(w)

EscalationStep ==
    \/ \E w \in Workers : ConfirmEmergency(w)
    \/ \E w \in Workers : EscCreate(w)
    \/ \E w \in Workers : EscAlert(w)
    \/ \E w \in Workers : EscFinish(w)

SchedConvs == {"c1", "c2"}

\* two contacts booking over the channel at the same time
RaceMsgs == {"text", "pick1", "yes"}

NextRace ==
    \/ \E c \in SchedConvs : \E m \in RaceMsgs \cap Answers(state[c]) : Deliver(c, m)
    \/ HandlerStep
    \/ BookingStep

SpecRace == Init /\ [][NextRace]_vars

\* the calendar under every writer: a contact booking over the channel, a
\* confirmed emergency, and the operator creating, moving and cancelling
\* appointments
CalendarMsgs == {"text", "emerg", "pick1", "yes"}
OperatorTimes == {540, 555}

NextCalendar ==
    \/ \E m \in CalendarMsgs \cap Answers(state["c1"]) : Deliver("c1", m)
    \/ HandlerStep
    \/ \E w \in Workers : InvalidEvent(w)
    \/ BookingStep
    \/ EscalationStep
    \/ \E t \in OperatorTimes : OperatorCreate("p2", t)
    \/ \E a \in appts, t \in OperatorTimes : OperatorReschedule(a, t)
    \/ \E a \in appts : OperatorCancel(a)

SpecCalendar == Init /\ [][NextCalendar]_vars

\* one contact booking while units of work fail and the transport delivers
\* the inbound event again
RetryMsgs == {"text", "pick1", "yes"}

NextRetry ==
    \/ \E m \in RetryMsgs \cap Answers(state["c1"]) : Deliver("c1", m)
    \/ HandlerStep
    \/ BookingStep
    \/ \E w \in Workers : Fail(w)

SpecRetry == Init /\ [][NextRetry]_vars

\* one contact reporting emergencies, confirming or withdrawing them, while
\* units of work fail and are retried; the operator may register the contact
\* as a client
EmergMsgs == {"emerg", "yes", "no"}

NextEmerg ==
    \/ \E m \in EmergMsgs \cap Answers(state["c1"]) : Deliver("c1", m)
    \/ HandlerStep
    \/ EscalationStep
    \/ \E w \in Workers : Fail(w)
    \/ OperatorCreateClient("p1")

SpecEmerg == Init /\ [][NextEmerg]_vars

\* one conversation left idle between messages while two timeout sweep runs
\* overlap
TimeoutMsgs == {"text", "status"}

NextTimeout ==
    \/ \E m \in TimeoutMsgs \cap Answers(state["c1"]) : Deliver("c1", m)
    \/ HandlerStep
    \/ Tick
    \/ \E s \in Sweepers : ToSelect(s)
    \/ \E s \in Sweepers : \E snap \in toSweep[s] : ToApply(s, snap)

SpecTimeout == Init /\ [][NextTimeout]_vars

\* transition called with every requested state, from every state a
\* conversation can be in
InitMemories ==
    {EmptyMemory,
     [offered |-> {OpenTime, OpenTime + SlotStep}, selected |-> NoSlot],
     [offered |-> {OpenTime, OpenTime + SlotStep}, selected |-> OpenTime]}

InitTransition ==
    /\ now = StartNow
    /\ \E s \in States, mem \in InitMemories, e \in {StartNow - EnteredAgo, StartNow} :
          /\ s = "IDLE" => mem = EmptyMemory
          /\ state = [c \in Convs |-> IF c = "c1" THEN s ELSE "IDLE"]
          /\ memory = [c \in Convs |-> IF c = "c1" THEN mem ELSE EmptyMemory]
          /\ deadline = [c \in Convs |->
                IF c = "c1" THEN DeadlineOnEntry(s, e) ELSE NoDeadline]
    /\ fuLink = [c \in Convs |-> 0]
    /\ emLink = [c \in Convs |-> 0]
    /\ inbox = [c \in Convs |-> <<>>]
    /\ unit = [w \in Workers |-> IdleUnit]
    /\ appts = {}
    /\ clients = {}
    /\ falseCount = [p \in Contacts |-> 0]
    /\ events = {}
    /\ alerts = {}
    /\ followups = {}
    /\ fuSweep = [s \in Sweepers |-> {}]
    /\ toSweep = [s \in Sweepers |-> {}]
    /\ outbound = [c \in Convs |-> 0]
    /\ sends = {}
    /\ nextId = 1
    /\ outcome = Outcome("init", NoConv, "ok", NoHops)

NextTransition == \E d \in States : TransitionTo("c1", d)

SpecTransition == InitTransition /\ [][NextTransition]_vars

\* the operator books and completes appointments, time passes, and two
\* follow-up sweep runs overlap
FollowTypes == {"consultation", "vaccination"}

NextFollow ==
    \/ \E t \in {OpenTime, OpenTime + 2 * SlotStep} : OperatorCreate("p1", t)
    \/ \E a \in appts, ptype \in FollowTypes : OperatorComplete(a, ptype)
    \/ Tick
    \/ \E s \in Sweepers : FuSelect(s)
    \/ \E s \in Sweepers : \E fid \in fuSweep[s], sendOk \in BOOLEAN : FuSend(s, fid, sendOk)

SpecFollow == Init /\ [][NextFollow]_vars

\* a confirmed emergency on a day the operator has booked, with alert sends
\* that may fail
AlertMsgs == {"emerg", "yes"}

NextAlert ==
    \/ \E m \in AlertMsgs \cap Answers(state["c1"]) : Deliver("c1", m)
    \/ HandlerStep
    \/ EscalationStep
    \/ \E w \in Workers : EscAlertFail(w)
    \/ \E t \in OperatorTimes : OperatorCreate("p2", t)

SpecAlert == Init /\ [][NextAlert]_vars

\* detect called on every message text
NextDetect == \E message \in Texts : Detect(message)

SpecDetect == Init /\ [][NextDetect]_vars

\* one contact writing messages with and without emergency terms, whatever
\* the classifier makes of them, and answering the confirmation
RouterMsgs ==
    {"text", "oos", "status", "emerg", "emerg_sched", "emerg_status", "emerg_oos",
     "yes", "no"}

NextRouter ==
    \/ \E m \in RouterMsgs \cap Answers(state["c1"]) : Deliver("c1", m)
    \/ HandlerStep
    \/ EscalationStep

SpecRouter == Init /\ [][NextRouter]_vars

\* the happy path: one contact asks for an appointment, gives a reason, picks
\* an offered slot and confirms, while another contact who books nothing
\* writes at the same time
HappyMsgs == {"text", "pick1", "pick2", "yes"}
BystanderMsgs == {"text", "oos"}

NextHappy ==
    \/ \E m \in HappyMsgs \cap Answers(state["c1"]) : Deliver("c1", m)
    \/ \E m \in BystanderMsgs \cap Answers(state["c2"]) : Deliver("c2", m)
    \/ HandlerStep
    \/ BookingStep

SpecHappy == Init /\ [][NextHappy]_vars

\* the operator books appointments and marks them completed with every
\* procedure type, one of them unknown to the protocols
ProcedureTypes == {"surgery", "vaccination", "consultation", "grooming"}

NextSchedule ==
    \/ \E t \in {OpenTime, OpenTime + 2 * SlotStep} : OperatorCreate("p1", t)
    \/ \E a \in appts, ptype \in ProcedureTypes : OperatorComplete(a, ptype)

SpecSchedule == Init /\ [][NextSchedule]_vars

\* slots are listed for open and closed days while the operator books, moves
\* and cancels appointments
NextSlots ==
    \/ \E hours \in DayHours, duration \in Durations : ListSlots(hours, duration)
    \/ \E t \in OperatorTimes \cup {OpenTime + SlotStep} : OperatorCreate("p2", t)
    \/ \E a \in appts, t \in OperatorTimes : OperatorReschedule(a, t)
    \/ \E a \in appts : OperatorCancel(a)

SpecSlots == Init /\ [][NextSlots]_vars

\* one contact reporting and confirming an emergency while classification
\* and reply sends fail and the transport delivers the inbound event again
FailureMsgs == {"emerg", "yes", "no"}

NextFailure ==
    \/ \E m \in FailureMsgs \cap Answers(state["c1"]) : Deliver("c1", m)
    \/ HandlerStep
    \/ EscalationStep
    \/ \E w \in Workers : Fail(w)
    \/ \E w \in Workers : EscFinishReplyFail(w)
    \/ \E w \in Workers : InvalidEvent(w)

SpecFailure == Init /\ [][NextFailure]_vars

\* the response to a follow-up of any procedure type is analysed, one
\* response a run
NextAnalyze ==
    /\ outcome.op # "analyze"
    /\ \E ptype \in ProcedureTypes, response_message \in Texts :
          Analyze(ptype, response_message)

SpecAnalyze == Init /\ [][NextAnalyze]_vars

\* a confirmed emergency whose alert sends may fail, and the operator
\* acknowledging and resolving emergencies on the dashboard
NextResolve ==
    \/ \E msg \in AlertMsgs \cap Answers(state["c1"]) : Deliver("c1", msg)
    \/ HandlerStep
    \/ EscalationStep
    \/ \E w \in Workers : EscAlertFail(w)
    \/ \E e \in events : OperatorAcknowledge(e)
    \/ \E e \in events, wasFalseAlarm \in BOOLEAN : OperatorResolve(e, wasFalseAlarm)

SpecResolve == Init /\ [][NextResolve]_vars

\* the operator books an appointment and edits its status back and forth
NextReopen ==
    \/ OperatorCreate("p1", OpenTime)
    \/ \E a \in appts, ptype \in FollowTypes :
          Cardinality(followups) < MaxFollowUps /\ OperatorComplete(a, ptype)
    \/ \E a \in appts, status \in {"scheduled", "confirmed", "no_show"} :
          OperatorSetStatus(a, status)

SpecReopen == Init /\ [][NextReopen]_vars

\* one contact whose emergency was escalated keeps writing
InvalidMsgs == {"emerg", "yes", "text"}

NextInvalid ==
    \/ \E m \in InvalidMsgs \cap Answers(state["c1"]) : Deliver("c1", m)
    \/ HandlerStep
    \/ EscalationStep
    \/ \E w \in Workers : InvalidEvent(w)

SpecInvalid == Init /\ [][NextInvalid]_vars

\* a conversation left alone in any state: no inbound message, no operator,
\* only the clock and the timeout sweep, every run of which gets its turn
NextSweep ==
    \/ Tick
    \/ \E s \in Sweepers : ToSelect(s)
    \/ \E s \in Sweepers : \E snap \in toSweep[s] : ToApply(s, snap)

SpecSweepFair ==
    /\ InitTransition
    /\ [][NextSweep]_vars
    /\ WF_vars(Tick)
    /\ \A s \in Sweepers :
          /\ WF_vars(ToSelect(s))
          /\ WF_vars(\E snap \in toSweep[s] : ToApply(s, snap))

(***************************************************************************)
(* Properties                                                              *)
(***************************************************************************)
\* the appointments booked from a conversation
Booked == {a \in appts : a.conv # NoConv}

\* C2: when two conversations race bookSlot for the same slot, exactly one
\* call persists an Appointment and the other fails with
\* SlotNoLongerAvailable: no slot ever holds the bookings of two
\* conversations.
C2_ExactlyOneBookingWins ==
    \A a, b \in Booked :
        (a.conv # b.conv /\ a.status # "cancelled" /\ b.status # "cancelled")
            => a.start # b.start

\* the windows of two appointments, widened by the buffer, overlap
Overlap(a, b) ==
    /\ a.start - BufferMin < b.end + BufferMin
    /\ b.start - BufferMin < a.end + BufferMin

\* C1: no two distinct non-cancelled appointments (status emergency
\* included) have overlapping [start-5min, end+5min] windows, whatever
\* bookings, escalations and operator actions have run.
C1_NoOverlappingAppointments ==
    \A a, b \in appts :
        (a.id # b.id /\ a.status # "cancelled" /\ b.status # "cancelled")
            => ~Overlap(a, b)

\* C8: a conversation creates at most one Appointment, however often the
\* confirming message in CONFIRM_BOOKING is delivered or processed again.
C8_OneAppointmentPerConversation ==
    \A a, b \in Booked : a.conv = b.conv => a.id = b.id

\* the priority appointments created for the emergencies of conversation c
PriorityAppts(c) ==
    {a \in appts : \E e \in events : e.conv = c /\ a.emergency = e.id}

\* C6: escalate is idempotent per conversation: after a crash past the
\* creation of the EmergencyEvent and any number of retries there is at most
\* one EmergencyEvent and at most one priority Appointment for the
\* conversation.
C6_EscalateIdempotent ==
    \A c \in Convs :
        /\ Cardinality({e \in events : e.conv = c}) <= 1
        /\ Cardinality(PriorityAppts(c)) <= 1

\* C7: confirm for a contact whose false-emergency count is >= 1 is denied,
\* whether the contact confirmed or not: it creates no EmergencyEvent, no
\* priority Appointment and no EmergencyAlert, starts no escalation, and the
\* conversation does not enter ESCALATE.
C7_RepeatOffenderDenied ==
    [][(outcome'.op = "confirm" /\ falseCount[contactOf[outcome'.c]] >= 1)
          => /\ outcome'.res = "denied"
             /\ events' = events
             /\ appts' = appts
             /\ alerts' = alerts
             /\ state'[outcome'.c] = state[outcome'.c]
             /\ state'[outcome'.c] # "ESCALATE"
             /\ \A w \in Workers : unit'[w].c # outcome'.c]_vars

\* a contact with a false alarm on record confirms a new emergency and is
\* denied
C7_Witness ==
    /\ outcome.op = "confirm"
    /\ outcome.res = "denied"
    /\ outcome.arg = "yes"
    /\ falseCount[contactOf[outcome.c]] >= 1
    /\ events = {}

\* the hops applied lead from state s to state d along edges of the table
AlongTable(hops, s, d) ==
    /\ hops # NoHops
    /\ hops[1][1] = s
    /\ EndOf(s, hops) = d
    /\ \A i \in 1..Len(hops) : hops[i][2] \in STATE_TRANSITIONS[hops[i][1]]
    /\ \A i \in 2..Len(hops) : hops[i][1] = hops[i - 1][2]

\* C3: every change of a conversation's state, whatever causes it, follows
\* edges of the adjacency table, and the timeout fallback of every state a
\* conversation enters is an edge of the table.
C3_EveryChangeIsATableEdge ==
    [][\A c \in Convs :
          /\ state'[c] # state[c] =>
                outcome'.c = c /\ AlongTable(outcome'.hops, state[c], state'[c])
          /\ StateFallback[state'[c]] # "NONE" =>
                StateFallback[state'[c]] \in STATE_TRANSITIONS[state'[c]]]_vars

\* C4: for every (state, event) the adjacency table does not allow,
\* transition fails with InvalidTransition and leaves the conversation's
\* state, working memory and deadline as they were.
C4_InvalidTransitionChangesNothing ==
    [][(outcome'.op = "transition"
            /\ outcome'.arg \notin STATE_TRANSITIONS[state[outcome'.c]])
          => /\ outcome'.res = "InvalidTransition"
             /\ state' = state
             /\ memory' = memory
             /\ deadline' = deadline]_vars

\* a transition outside the table was refused for a conversation that holds a
\* selection and a running deadline
C4_Witness ==
    /\ outcome.op = "transition"
    /\ outcome.res = "InvalidTransition"
    /\ outcome.arg = "COMPLETED"
    /\ state[outcome.c] = "AWAIT_SELECTION"
    /\ memory[outcome.c].selected # NoSlot
    /\ deadline[outcome.c] # NoDeadline

\* C5: a timeout sweep run that handles an expired conversation applies the
\* state's fallback unless another run claimed it first; a run that lost the
\* claim, or whose timeout is stale, changes nothing: the fallback happens
\* exactly once, never twice and never skipped.
C5_FallbackExactlyOnce ==
    [][outcome'.op = "timeout" =>
          LET c == outcome'.c
          IN  /\ ~Expired(c) => (state' = state /\ deadline' = deadline)
              /\ outcome'.res = "lost_claim" => (state' = state /\ deadline' = deadline)
              /\ (Expired(c) /\ outcome'.res # "lost_claim") =>
                    /\ state'[c] = StateFallback[state[c]]
                    /\ deadline'[c] = DeadlineOnEntry(state'[c], now)]_vars

C10_DispatchedAtMostOnce ==
    \A f \in followups :
        /\ Cardinality({x \in sends : x.fu = f.id}) <= 1
        /\ Cardinality({c \in Convs : fuLink[c] = f.id}) <= 1

\* C11: escalate adds one priority Appointment and leaves every appointment
\* that existed before as it was, even one its window overlaps.
C11_EscalateAbsorbs ==
    [][outcome'.op = "escalate" =>
          /\ appts \subseteq appts'
          /\ IF outcome'.res = "event_created"
             THEN \E a \in appts' \ appts :
                     /\ appts' = appts \cup {a}
                     /\ a.priority = "emergency"
                     /\ a.status = "emergency"
             ELSE appts' = appts]_vars

\* an escalation has added its priority Appointment over a scheduled
\* appointment that its window overlaps
C11_Witness ==
    /\ outcome.op = "escalate"
    /\ outcome.res = "event_created"
    /\ \E a, e \in appts :
          /\ a.status = "scheduled"
          /\ e.status = "emergency"
          /\ Overlap(a, e)

\* C12: escalate attempts one alert for each escalation contact: a failed
\* send to one contact is followed by the attempt to the next one, and the
\* escalation still brings the conversation to ESCALATE.
C12_AlertFailureDoesNotBlock ==
    [][(outcome'.op = "escalate" /\ outcome'.res = "alert_failed") =>
          \E w \in Workers :
              /\ unit[w].c = outcome'.c
              /\ unit'[w].c = outcome'.c
              /\ unit'[w].pc = "esc_alert"
              /\ unit'[w].i = unit[w].i + 1]_vars

\* the text holds a high-confidence term, in whatever letter case it was typed
HasHighTerm(text) ==
    \E kw \in EMERGENCY_KEYWORDS.high :
        \E i \in 0..(Len(text) - Len(kw)) :
            \A j \in 1..Len(kw) : lower(text[i + j]) = kw[j]

\* C13: for every message text that holds a high-confidence emergency term,
\* whatever surrounds it, detect returns a potential emergency with
\* confidence high that requires confirmation.
C13_HighTermAlwaysDetected ==
    (outcome.op = "detect" /\ HasHighTerm(outcome.arg)) =>
        /\ outcome.res.is_potential_emergency
        /\ outcome.res.confidence = "high"
        /\ outcome.res.requires_confirmation

\* a high-confidence term typed in capitals inside other text that also holds
\* a medium term was detected
C13_Witness ==
    /\ outcome.op = "detect"
    /\ outcome.arg = <<"u", "N", "R">>
    /\ outcome.res.confidence = "high"

\* the states in which the router classifies the inbound message
RouterStates == {"IDLE", "GREETING", "INTENT_DETECTION", "REMINDER"}

\* the messages whose text holds an emergency term
EmergencyMsgs == {"emerg", "emerg_sched", "emerg_status", "emerg_oos"}

C15_HappyPathSixMessages ==
    state["c1"] = "CLOSED" =>
        /\ Cardinality({a \in appts : a.conv = "c1"}) = 1
        /\ Cardinality(appts) = 1
        /\ outbound["c1"] = 6

\* C16: scheduleFollowUps creates exactly one pending FollowUp per step of
\* the procedure type's protocol, numbered 1..n, each at the appointment's
\* end plus that step's delay; surgery gives 4 with strictly increasing
\* times, and an unknown procedure type gets the consultation protocol.
C16_OneFollowUpPerProtocolStep ==
    [][outcome'.op = "operator_complete" =>
          LET new == followups' \ followups
              ptype == outcome'.arg
              schedule == ProtocolSchedule(ptype)
              a == CHOOSE x \in appts : x \notin appts'
          IN  /\ followups \subseteq followups'
              /\ Cardinality(new) = Len(schedule)
              /\ {f.seq : f \in new} = 1..Len(schedule)
              /\ \A f \in new :
                    /\ f.status = "pending"
                    /\ f.appt = a.id
                    /\ f.at = a.end + schedule[f.seq] * 60
              /\ ptype = "surgery" =>
                    /\ Cardinality(new) = 4
                    /\ \A f, g \in new : f.seq < g.seq => f.at < g.at
              /\ ptype \notin {"surgery", "vaccination", "consultation"} =>
                    {f.at - a.end : f \in new} = {48 * 60}]_vars

\* a surgery appointment has been completed and its four FollowUps exist
C16_Witness ==
    /\ outcome.op = "operator_complete"
    /\ outcome.arg = "surgery"
    /\ \E a \in appts :
          /\ a.status = "completed"
          /\ Cardinality({f \in followups : f.appt = a.id}) = 4

\* the slot [t, t + d] is on the 30-minute grid of the hours, inside them, and
\* overlaps no non-cancelled appointment widened by 5 minutes on both sides
FreeGridSlot(hours, t, d) ==
    /\ t >= hours.open_time
    /\ (t - hours.open_time) % 30 = 0
    /\ t + d <= hours.close_time
    /\ \A a \in appts :
          a.status # "cancelled" => ~(a.start - 5 < t + d /\ t < a.end + 5)

OutOfScopeMsgs == {m \in Msgs : IntentOf(m) = "out_of_scope" /\ ~PreFilter(m)}

\* C18: a message classified out_of_scope while the conversation is in
\* INTENT_DETECTION is answered with a redirect reply and leaves the
\* conversation in INTENT_DETECTION, and an out_of_scope message the router
\* handles never moves a conversation to CLOSED, however many came before it.
C18_OutOfScopeStaysInIntentDetection ==
    [][(outcome'.op = "step" /\ outcome'.arg \in OutOfScopeMsgs)
        => LET c == outcome'.c
           IN  /\ state[c] \in RouterStates => state'[c] = "INTENT_DETECTION"
               /\ state[c] = "INTENT_DETECTION"
                    => /\ state'[c] = "INTENT_DETECTION"
                       /\ outcome'.res = "ok"
                       /\ outbound'[c] = outbound[c] + 1
                       /\ memory'[c] = memory[c]]_vars

\* the third out-of-scope message in a row has been answered and the
\* conversation waits in INTENT_DETECTION for the next message
C18_Witness ==
    /\ outcome.op = "step"
    /\ outcome.arg \in OutOfScopeMsgs
    /\ outcome.hops = NoHops
    /\ state["c1"] = "INTENT_DETECTION"
    /\ outbound["c1"] = 3
    /\ falseCount = [p \in Contacts |-> 0]

C20_FailedEventLeavesConversationUnchanged ==
    [][outcome'.op = "fail" =>
          \E w \in Workers :
              LET c == outcome'.c
              IN  /\ unit[w].c = c
                  /\ state'[c] = unit[w].read
                  /\ memory'[c] = memory[c]
                  /\ deadline'[c] = deadline[c]]_vars

\* C21: when the send of a due FollowUp fails, the dispatch marks it failed
\* with the error recorded, and a FollowUp in status failed stays failed: no
\* sweep sends it again or makes it pending or sent.
C21_FailedFollowUpStaysFailed ==
    [][/\ (outcome'.op = "dispatch" /\ outcome'.res = "failed") =>
             \E f \in followups' :
                 /\ f.id = outcome'.arg
                 /\ f.status = "failed"
                 /\ f.error # "none"
       /\ \A f \in followups :
             f.status = "failed" =>
                 \E g \in followups' : g.id = f.id /\ g.status = "failed"]_vars

\* C30: a follow_up conversation linked to a FollowUp exists only if that
\* FollowUp's message was sent: a dispatch whose send fails leaves no
\* conversation and no outbound message for it.
C30_NoConversationForFailedSend ==
    /\ \A c \in Convs :
          fuLink[c] # 0 => \E x \in sends : x.fu = fuLink[c] /\ x.conv = c
    /\ (outcome.op = "dispatch" /\ outcome.res = "failed") =>
          /\ fuLink[outcome.c] # outcome.arg
          /\ outbound[outcome.c] = 0

\* the text holds the term, in whatever letter case it was typed
HasTerm(text, kw) ==
    \E i \in 0..(Len(text) - Len(kw)) :
        \A j \in 1..Len(kw) : lower(text[i + j]) = kw[j]

\* C22: analyzeResponse returns requiresEscalation = true exactly when the
\* response text matches a keyword of the FollowUp's own escalation-keyword
\* set, whatever the sentiment counts are; the sentiment tally alone can make
\* the status concern but never sets requiresEscalation.
C22_EscalationIffOwnKeyword ==
    outcome.op = "analyze" =>
        LET own == escalation_keywords(outcome.arg.ptype)
            hit == \E kw \in own : HasTerm(outcome.arg.message, kw)
        IN  /\ outcome.res.requires_escalation <=> hit
            /\ outcome.res.requires_escalation => outcome.res.status = "concern"
            /\ outcome.res.matched_keywords \subseteq own

\* a response with more positive than negative words that holds a keyword of
\* its vaccination follow-up, typed in capitals, was analysed: it escalates
C22_Witness ==
    /\ outcome.op = "analyze"
    /\ outcome.arg = [ptype |-> "vaccination", message |-> <<"x", "N", "R">>]
    /\ outcome.res.requires_escalation

C24_FalseAlarmCountsOnce ==
    [][(outcome'.op = "confirm" /\ outcome'.arg = "no"
          /\ falseCount[contactOf[outcome'.c]] = 0)
        => LET c == outcome'.c
               p == contactOf[c]
           IN  /\ outcome'.res = "redirect_to_scheduling"
               /\ falseCount'[p] = 1
               /\ events' = events
               /\ state[c] = "CONFIRM_EMERGENCY"
               /\ state'[c] = "ASK_REASON"]_vars

\* C25: scheduleFollowUps runs once for an appointment, at its first
\* transition to completed: an appointment never has two FollowUps for the
\* same protocol step, also after its status was changed away from completed
\* and back.
C25_FollowUpsScheduledOnce ==
    \A a \in appts :
        \A f, g \in followups :
            (f.appt = a.id /\ g.appt = a.id /\ f.seq = g.seq) => f = g

\* C26: a conversation has a timeout deadline exactly when its state is not
\* ESCALATE, COMPLETED or CLOSED: every state entry sets the deadline and
\* entering one of these three clears it, so that no timeout fires for a
\* conversation in one of them. (IDLE is "no conversation yet".)
C26_DeadlineExactlyInTimedStates ==
    \A c \in Convs :
        state[c] # "IDLE" =>
            (deadline[c] # NoDeadline <=> state[c] \notin {"ESCALATE", "COMPLETED", "CLOSED"})

\* C27: an inbound event that is not valid for the conversation's state does
\* not crash the handler: the message is dropped, the "let's start over"
\* reply is sent, and the conversation is in INTENT_DETECTION afterwards.
C27_InvalidEventNudgesToIntentDetection ==
    [][outcome'.op = "invalid_event" =>
          LET c == outcome'.c
          IN  /\ outbound'[c] = outbound[c] + 1
              /\ \A w \in Workers : unit'[w].c # c
              /\ state'[c] = "INTENT_DETECTION"]_vars

\* C28: when bookSlot fails with SlotNoLongerAvailable no Appointment is
\* created, the conversation goes from CONFIRM_BOOKING back to OFFER_SLOTS
\* with a newly generated offer of free slots that does not contain the taken
\* slot, and the selection is dropped: a slot is booked only after the
\* contact selected it from the current offer.
C28_LostSlotIsReoffered ==
    [][/\ (outcome'.op = "book_check" /\ outcome'.res = "SlotNoLongerAvailable") =>
             LET c == outcome'.c
             IN  /\ appts' = appts
                 /\ state[c] = "CONFIRM_BOOKING"
                 /\ state'[c] = "OFFER_SLOTS"
                 /\ memory[c].selected \notin memory'[c].offered
                 /\ \A t \in memory'[c].offered :
                       ~\E a \in appts :
                           /\ a.status # "cancelled"
                           /\ a.start < t + DefaultDuration + BufferMin
                           /\ a.end > t - BufferMin
                 /\ memory'[c].selected = NoSlot
                 /\ \A w \in Workers : unit'[w].c # c
       /\ outcome'.op = "book_commit" =>
             /\ memory[outcome'.c].selected # NoSlot
             /\ memory[outcome'.c].selected \in memory[outcome'.c].offered]_vars

\* a contact confirmed a slot another conversation had booked meanwhile: the
\* booking failed and the contact was offered the slots that are still free
C28_Witness ==
    /\ outcome.op = "book_check"
    /\ outcome.res = "SlotNoLongerAvailable"
    /\ state[outcome.c] = "OFFER_SLOTS"
    /\ memory[outcome.c].offered # {}
    /\ \E a \in appts : a.conv # outcome.c /\ a.status = "scheduled"
    /\ ~\E a \in appts : a.conv = outcome.c

\* the states that have a timeout
TimedStates == {s \in States : StateTimeout[s] # NoDeadline}

\* C29: under a fair timeout sweep, with no inbound message and no operator
\* action, every conversation in a state that has a timeout eventually
\* reaches CLOSED along the timeout fallbacks, and the last step from
\* REMINDER to CLOSED sends no message.
C29_TimeoutsLeadToClosed ==
    /\ \A c \in Convs : (state[c] \in TimedStates) ~> (state[c] = "CLOSED")
    /\ [][\A c \in Convs :
            (state[c] = "REMINDER" /\ state'[c] = "CLOSED") => outbound'[c] = outbound[c]]_vars

====
